---- MODULE Spec2Model ----
(***************************************************************************)
(* Model of colour.io.luts: the Sony .spi3d codec (sony_spi3d.py) and the  *)
(* dispatch layer read_LUT / write_LUT (__init__.py).                      *)
(*                                                                         *)
(* Samples are exact rationals [num, den].  A sample of a caller's table   *)
(* is n/8 (exactly representable in binary floating point, so that the     *)
(* decimal formatting of the writer is the correctly rounded one).  The    *)
(* linear table, from which both functions derive the index columns, is    *)
(* computed in binary floating point, bit for bit.  A                      *)
(* token of a file is a record [w, q, d]: a word w, or (w = "") the        *)
(* decimal literal q / 10^d written with d fractional digits; d = 0 is an  *)
(* integer literal.  A comment string is [lead, body, trail]: a body       *)
(* without surrounding white space, between lead and trail blanks.         *)
(***************************************************************************)
EXTENDS Integers, Sequences, FiniteSets, TLC

VARIABLES
    exists,     \* the .spi3d path names a file
    file,       \* its lines
    pristine,   \* nothing but write_LUT_SonySPI3D touched the file since it was written
    handles,    \* file handles currently open
    opens,      \* file handles opened by the running codec call
    pc,         \* position of the running call
    pos,        \* read_LUT_SonySPI3D: index of the next line of `lines`
    size,       \* read_LUT_SonySPI3D locals
    indexes,
    table,
    comments,
    pending,    \* exception in flight inside a `with` block
    LUT,        \* write_LUT_SonySPI3D arguments
    decimals,
    disp,       \* frame of read_LUT / write_LUT
    log,        \* codecs the running dispatch call has invoked
    ret,        \* outcome of the last codec or dispatch call
    written     \* what write_LUT_SonySPI3D last put in the file, while nothing else touched it

vars == <<exists, file, pristine, handles, opens, pc, pos, size, indexes,
          table, comments, pending, LUT, decimals, disp, log, ret, written>>

---------------------------------------------------------------------------
(* Bounds *)

MaxSize == 2

MaxDecimals == 1

\* The size of the table of the large-table specification.
LargeSize == 8

---------------------------------------------------------------------------
(* Numbers, tokens, lines *)

Rat(n, m) == [num |-> n, den |-> m]

RECURSIVE Pow10(_)
Pow10(d) == IF d <= 0 THEN 1 ELSE 10 * Pow10(d - 1)

Cube(n) == n * n * n

Word(s) == [w |-> s, q |-> 0, d |-> 0]

Lit(n, k) == [w |-> "", q |-> n, d |-> k]

IsNumeric(tok) == tok.w = ""

ValueOf(tok) == Rat(tok.q, Pow10(tok.d))

NoText == [lead |-> 0, body |-> "", trail |-> 0]

Text(s) == [lead |-> 0, body |-> s, trail |-> 0]

Padded(l, s, t) == [lead |-> l, body |-> s, trail |-> t]

CommentLine(c) == [hash |-> TRUE, text |-> c, toks |-> <<>>]

TokenLine(ts) == [hash |-> FALSE, text |-> NoText, toks |-> ts]

\* str.strip() of a comment string
Strip(c) == [lead |-> 0, body |-> c.body, trail |-> 0]

\* '# {0}'.format(comment)[1:], the text after the hash
Prefixed(c) == IF c.body = "" THEN [lead |-> c.lead + c.trail + 1, body |-> "", trail |-> 0]
               ELSE [c EXCEPT !.lead = @ + 1]

---------------------------------------------------------------------------
(* Table model: the values a caller can hand to a writer *)

UnitDomain == << <<0, 0, 0>>, <<1, 1, 1>> >>

WideDomain == << <<0, 0, 0>>, <<2, 2, 2>> >>

ExplicitDomain == << <<0, 0, 0>>, <<1, 1, 1>>, <<2, 2, 2>> >>

ScalarDomain == << <<0>>, <<1>> >>

ExplicitScalarDomain == << <<0>>, <<1>>, <<2>> >>

MakeLUT(k, n, t, dom, cs) ==
    [kind |-> k, size |-> n, table |-> t, domain |-> dom, comments |-> cs, seq |-> <<>>]

MakeSequence(ops) ==
    [kind |-> "LUTSequence", size |-> 0, table |-> <<>>, domain |-> <<>>,
     comments |-> <<>>, seq |-> ops]

NoLUT == MakeLUT("none", 0, <<>>, <<>>, <<>>)

\* What a codec outside this model hands back: its content is not modelled.
OpaqueLUT == MakeLUT("opaque", 0, <<>>, <<>>, <<>>)

\* Table.is_domain_explicit(): the domain is not a single (min, max) pair.
is_domain_explicit(L) == Len(L.domain) # 2

---------------------------------------------------------------------------
(* Binary floating point.  A positive double is [hi, mid, lo, e]: its 53-bit *)
(* significand m = hi * Limb^2 + mid * Limb + lo, with 2^16 <= hi < 2^17 and *)
(* mid, lo < Limb, and the exponent e of its last bit: the value is m * 2^e. *)
(* Zero has hi = 0.                                                          *)

Limb == 2 ^ 18

Zero == [hi |-> 0, mid |-> 0, lo |-> 0, e |-> 0]

One == [hi |-> 2 ^ 16, mid |-> 0, lo |-> 0, e |-> -52]

\* The significand m + 1 of the double above [hi, mid, lo, e].
Successor(x) ==
    IF x.lo + 1 < Limb THEN [x EXCEPT !.lo = x.lo + 1]
    ELSE IF x.mid + 1 < Limb THEN [x EXCEPT !.lo = 0, !.mid = x.mid + 1]
    ELSE IF x.hi + 1 < 2 ^ 17 THEN [x EXCEPT !.lo = 0, !.mid = 0, !.hi = x.hi + 1]
    ELSE [hi |-> 2 ^ 16, mid |-> 0, lo |-> 0, e |-> x.e + 1]

\* Round to nearest, ties to even: x is the exact value truncated, rem / unit
\* the fraction of its last bit that was cut off.
Nearest(x, rem, unit) ==
    IF 2 * rem > unit \/ (2 * rem = unit /\ x.lo % 2 = 1) THEN Successor(x) ELSE x

\* The least L with d <= 2^L
CeilLog2(d) == CHOOSE L \in 0..30 : d <= 2 ^ L /\ (L = 0 \/ d > 2 ^ (L - 1))

\* 1.0 / d for an integer 1 <= d < 2^7, by long division limb by limb.
Reciprocal(d) ==
    LET L  == CeilLog2(d)
        n2 == 2 ^ (16 + L)
        r2 == n2 % d
        r1 == (r2 * Limb) % d
        r0 == (r1 * Limb) % d
    IN  Nearest([hi |-> n2 \div d, mid |-> (r2 * Limb) \div d,
                 lo |-> (r1 * Limb) \div d, e |-> -(52 + L)], r0, d)

\* x * k for a double x >= 0 and an integer 0 <= k < 2^7
Scaled(x, k) ==
    IF k = 0 \/ x.hi = 0 THEN Zero
    ELSE LET p0 == x.lo * k
             p1 == x.mid * k + p0 \div Limb
             p2 == x.hi * k + p1 \div Limb
             s  == CHOOSE i \in 0..7 : p2 < 2 ^ (17 + i) /\ p2 >= 2 ^ (16 + i)
             u  == 2 ^ s
         IN  Nearest([hi  |-> p2 \div u,
                      mid |-> (p1 % Limb) \div u + (p2 % u) * (Limb \div u),
                      lo  |-> (p0 % Limb) \div u + (p1 % u) * (Limb \div u),
                      e   |-> x.e + s],
                     p0 % u, u)

\* DEFAULT_INT_DTYPE(x) for a double 0 <= x < 2^17: the cast truncates.
IntCast(x) ==
    IF x.hi = 0 \/ -x.e >= 53 THEN 0 ELSE x.hi \div 2 ^ (-x.e - 36)

\* np.linspace(0, 1, n)[i]: i * step with step = 1 / (n - 1), the last
\* sample set to the stop value.
linspace(n, i) ==
    IF n = 1 THEN Zero
    ELSE IF i = n - 1 THEN One
    ELSE Scaled(Reciprocal(n - 1), i)

\* LUT3D.linear_table(n).reshape([-1, 3]): row r is the lattice point r of
\* the samples of np.linspace(0, 1, n), the last axis varying fastest.
linear_table(n) ==
    LET samples == [i \in 0..(n - 1) |-> linspace(n, i)]
    IN  [r \in 1..Cube(n) |->
            << samples[(r - 1) \div (n * n)],
               samples[((r - 1) \div n) % n],
               samples[(r - 1) % n] >>]

\* DEFAULT_INT_DTYPE(LUT3D.linear_table(size) * (size - 1)).reshape([-1, 3])
LatticeIndexes(n) ==
    LET t == linear_table(n)
    IN  [r \in 1..Cube(n) |-> [a \in 1..3 |-> IntCast(Scaled(t[r][a], n - 1))]]

---------------------------------------------------------------------------

\* Sample tables: every sample is n/8 with -4 <= n <= 12.
SampleTable(n, seed) ==
    [r \in 1..Cube(n) |->
        [a \in 1..3 |-> Rat((((3 * r + a) * seed * 5) % 17) - 4, 8)]]

TableSeeds == {1, 2}

CommentA == Text("A first comment.")

CommentB == Text("A second comment.")

CommentPadded == Padded(1, "indented", 1)

CommentLists == { <<>>, <<CommentA, CommentB>>, <<CommentPadded, CommentA>> }

ValidLUT3Ds(maxn, seeds, cls) ==
    { MakeLUT("LUT3D", n, SampleTable(n, s), UnitDomain, cs) :
        n \in 1..maxn, s \in seeds, cs \in cls }

InvalidLUTs ==
    { MakeLUT("LUT3D", 1, SampleTable(1, 1), WideDomain, <<>>),
      MakeLUT("LUT3D", 1, SampleTable(1, 1), ExplicitDomain, <<>>),
      MakeLUT("LUT3x1D", 1, <<>>, UnitDomain, <<>>),
      MakeLUT("LUT3x1D", 1, <<>>, ExplicitDomain, <<>>),
      MakeLUT("LUT1D", 1, <<>>, ScalarDomain, <<>>),
      MakeLUT("LUT1D", 1, <<>>, ExplicitScalarDomain, <<>>) }

Sequences ==
    { MakeSequence(<<MakeLUT("LUT3x1D", 1, <<>>, UnitDomain, <<>>),
                     MakeLUT("LUT3D", 1, SampleTable(1, 1), UnitDomain, <<>>)>>),
      MakeSequence(<<MakeLUT("LUT3D", 1, SampleTable(1, 2), UnitDomain, <<CommentA>>)>>) }

\* The arguments of the codec's callers when files are edited.
Luts == ValidLUT3Ds(MaxSize, TableSeeds, CommentLists)

Decimals == -1..MaxDecimals

\* The arguments of the codec's callers beside the dispatch layer.
SmallLuts == ValidLUT3Ds(1, {1}, { <<>> }) \cup InvalidLUTs \cup Sequences

\* The argument of the codec's callers for a large table.
LargeLuts == { MakeLUT("LUT3D", LargeSize, SampleTable(LargeSize, 1), UnitDomain, <<>>) }

\* The values written through the dispatch layer.
DispatchLuts == ValidLUT3Ds(1, {1}, { <<>> }) \cup Sequences
                    \cup { MakeLUT("LUT1D", 1, <<>>, ScalarDomain, <<>>) }

DispatchDecimals == {0}

SmallDecimals == {-1, 0}

---------------------------------------------------------------------------
(* Outcomes of calls *)

NoError == [etype |-> "", emsg |-> "", by |-> ""]

MakeError(t, m, who) == [etype |-> t, emsg |-> m, by |-> who]

NonUniformShape == "Non-uniform \"LUT\" shape is unsupported!"

IndexesMismatch == "Indexes do not match expected \"LUT3D\" indexes!"

DomainNotImplicit == "\"LUT\" domain must be implicit!"

NotLUT3D == "\"LUT\" must be either a 3D \"LUT\"!"

DomainNotUnit == "\"LUT\" domain must be [[0, 0, 0], [1, 1, 1]]!"

\* fn is the function the outcome comes from; error.by stays the function
\* that raised the exception.
NoRet == [fn |-> "", status |-> "none", error |-> NoError, value |-> NoLUT]

Returned(f, v) == [fn |-> f, status |-> "ok", error |-> NoError, value |-> v]

Raised(e) == [fn |-> e.by, status |-> "error", error |-> e, value |-> NoLUT]

NoDisp == [op |-> "none", given |-> "", method |-> "", path |-> "", attempt |-> 0]

NoWritten == [valid |-> FALSE, complete |-> FALSE, LUT |-> NoLUT, decimals |-> 0]

\* Where control goes when a codec returns or raises: to the caller, which is
\* the user or the frame of read_LUT / write_LUT.
ReturnTo(frame) == IF frame.op = "none" THEN "idle" ELSE "d_ret"

---------------------------------------------------------------------------
(* write_LUT_SonySPI3D: the text it produces *)

\* Nearest integer to a / b (b > 0), ties to even: the rounding of '{:0.{}f}'
\* on a value that is exact in binary.
RoundHalfEven(a, b) ==
    LET f == a \div b
        r == a % b
    IN  IF 2 * r < b THEN f
        ELSE IF 2 * r > b THEN f + 1
        ELSE IF f % 2 = 0 THEN f ELSE f + 1

\* '{:0.{d}f}'.format(x)
FormatFloat(x, d) == Lit(RoundHalfEven(x.num * Pow10(d), x.den), d)

\* '{:d}'.format(i)
FormatInt(i) == Lit(i, 0)

\* _format_array(list(row) + list(table[i]))
format_array(row, sample, d) ==
    TokenLine(<< FormatInt(row[1]), FormatInt(row[2]), FormatInt(row[3]),
                 FormatFloat(sample[1], d), FormatFloat(sample[2], d),
                 FormatFloat(sample[3], d) >>)

HeaderLines(n) ==
    << TokenLine(<<Word("SPILUT"), Lit(10, 1)>>),
       TokenLine(<<Lit(3, 0), Lit(3, 0)>>),
       TokenLine(<<FormatInt(n), FormatInt(n), FormatInt(n)>>) >>

DataLines(L, d) ==
    LET idx == LatticeIndexes(L.size)
    IN  [r \in 1..Len(idx) |-> format_array(idx[r], L.table[r], d)]

CommentLines(L) ==
    [i \in 1..Len(L.comments) |-> CommentLine(Prefixed(L.comments[i]))]

WrittenLines(L, d) == HeaderLines(L.size) \o DataLines(L, d) \o CommentLines(L)

---------------------------------------------------------------------------
(* read_LUT_SonySPI3D: one iteration of the loop over the lines *)

AllNumeric(ts) == \A i \in 1..Len(ts) : IsNumeric(ts[i])

\* parse_array(tokens): float() of each token
parse_array(ts) == [i \in 1..Len(ts) |-> ValueOf(ts[i])]

\* DEFAULT_INT_DTYPE(token) accepts an integer literal only
IsIntLiteral(tok) == IsNumeric(tok) /\ tok.d = 0

\* A reader that keeps the text after the hash as it is.
CommentUnstripped(line) == line.text

\* Line 75: line[1:].strip()
CommentOf(line) == Strip(line.text)

\* A reader without the assertion on the size line.
AnyShape(ts) == TRUE

\* Lines 80-81: len(set(tokens)) == 1
UniformShape(ts) == Cardinality({ts[i] : i \in 1..Len(ts)}) = 1

\* A reader that rejects a line it has no use for.
RejectedLine(st) ==
    [st EXCEPT !.err = MakeError("ValueError", "tokens", "read_LUT_SonySPI3D")]

\* Lines 79 and 84: a line of neither three nor six tokens matches no `if`.
SkippedLine(st) == st

\* The locals after the loop body ran on `line`; err is what it raised.
ParseLine(st, line) ==
    LET ts == line.toks
    IN  IF line.hash
        THEN [st EXCEPT !.comments = Append(@, CommentOf(line))]
        ELSE IF Len(ts) = 3
        THEN IF ~UniformShape(ts)
             THEN [st EXCEPT !.err = MakeError("AssertionError", NonUniformShape,
                                               "read_LUT_SonySPI3D")]
             ELSE IF ~IsIntLiteral(ts[1])
             THEN [st EXCEPT !.err = MakeError("ValueError", "int", "read_LUT_SonySPI3D")]
             ELSE [st EXCEPT !.size = ts[1].q]
        ELSE IF Len(ts) = 6
        THEN IF ~AllNumeric(ts)
             THEN [st EXCEPT !.err = MakeError("ValueError", "float", "read_LUT_SonySPI3D")]
             ELSE [st EXCEPT !.indexes = Append(@, parse_array(SubSeq(ts, 1, 3))),
                             !.table = Append(@, parse_array(SubSeq(ts, 4, 6)))]
        ELSE SkippedLine(st)

\* np.array_equal(indexes, expected)
IndexesEqual(idx, expected) ==
    /\ Len(idx) = Len(expected)
    /\ \A r \in 1..Len(idx) : \A a \in 1..3 :
           idx[r][a].num = expected[r][a] * idx[r][a].den

---------------------------------------------------------------------------
(* Initial state: no call has run and the path names no file *)

Init ==
    /\ exists = FALSE
    /\ file = <<>>
    /\ pristine = FALSE
    /\ handles = 0
    /\ opens = 0
    /\ pc = "idle"
    /\ pos = 0
    /\ size = 0
    /\ indexes = <<>>
    /\ table = <<>>
    /\ comments = <<>>
    /\ pending = NoError
    /\ LUT = NoLUT
    /\ decimals = 0
    /\ disp = NoDisp
    /\ log = <<>>
    /\ ret = NoRet
    /\ written = NoWritten

---------------------------------------------------------------------------
(* read_LUT_SonySPI3D *)

\* Lines 64-71: the locals, then open(path).
ReadEnter(frame) ==
    /\ size' = 2
    /\ indexes' = <<>>
    /\ table' = <<>>
    /\ comments' = <<>>
    /\ pending' = NoError
    /\ LUT' = NoLUT
    /\ decimals' = 0
    /\ IF exists
       THEN /\ handles' = handles + 1
            /\ opens' = 1
            /\ pos' = 1
            /\ pc' = "r_loop"
            /\ ret' = NoRet
       ELSE /\ handles' = handles
            /\ opens' = 0
            /\ pos' = 0
            /\ pc' = ReturnTo(frame)
            /\ ret' = Raised(MakeError("IOError", "open", "read_LUT_SonySPI3D"))
    /\ UNCHANGED <<exists, file, pristine, written>>

\* Lines 73-86: the loop body on the next line.
ReadLine ==
    /\ pc = "r_loop"
    /\ pos <= Len(file)
    /\ LET st == ParseLine([size |-> size, indexes |-> indexes, table |-> table,
                            comments |-> comments, err |-> NoError], file[pos])
       IN  /\ size' = st.size
           /\ indexes' = st.indexes
           /\ table' = st.table
           /\ comments' = st.comments
           /\ pending' = st.err
           /\ IF st.err = NoError
              THEN pos' = pos + 1 /\ pc' = "r_loop"
              ELSE pos' = pos /\ pc' = "r_abort"
    /\ UNCHANGED <<exists, file, pristine, handles, opens, LUT, decimals, disp, log, ret, written>>

\* A reader whose file is not closed.
ReadLeak(h) == h

\* Handles left open when the `with` block of line 71 is left.
ReadRelease(h) == h - 1

\* Line 71: the `with` block is left after the last line.
ReadClose ==
    /\ pc = "r_loop"
    /\ pos > Len(file)
    /\ handles' = ReadRelease(handles)
    /\ pc' = "r_check"
    /\ UNCHANGED <<exists, file, pristine, opens, pos, size, indexes, table, comments,
                   pending, LUT, decimals, disp, log, ret, written>>

\* Line 71: the `with` block is left by the exception of the loop body.
ReadAbort ==
    /\ pc = "r_abort"
    /\ handles' = ReadRelease(handles)
    /\ pc' = ReturnTo(disp)
    /\ ret' = Raised(pending)
    /\ UNCHANGED <<exists, file, pristine, opens, pos, size, indexes, table, comments,
                   pending, LUT, decimals, disp, log, written>>

\* Lines 88-91: the assertion on the parsed index columns.
IndexesAccepted(idx, n) == n >= 1 /\ IndexesEqual(idx, LatticeIndexes(n))

\* Lines 88-96: the assertion, the reshape and the LUT3D handed back.
ReadCheck ==
    /\ pc = "r_check"
    /\ pc' = ReturnTo(disp)
    /\ ret' = IF ~IndexesAccepted(indexes, size)
              THEN Raised(MakeError("AssertionError", IndexesMismatch, "read_LUT_SonySPI3D"))
              ELSE IF Len(table) # Cube(size)
              THEN Raised(MakeError("ValueError", "reshape", "read_LUT_SonySPI3D"))
              ELSE Returned("read_LUT_SonySPI3D",
                            MakeLUT("LUT3D", size, table, UnitDomain, comments))
    /\ UNCHANGED <<exists, file, pristine, handles, opens, pos, size, indexes, table,
                   comments, pending, LUT, decimals, disp, log, written>>

---------------------------------------------------------------------------
(* write_LUT_SonySPI3D *)

\* Lines 135-136: a LUTSequence is narrowed to its first LUT.
Narrowed(L) == IF L.kind = "LUTSequence" THEN L.seq[1] ELSE L

\* A writer that checks the type first.
TypeCheckedFirst(L) ==
    IF L.kind # "LUT3D"
    THEN MakeError("AssertionError", NotLUT3D, "write_LUT_SonySPI3D")
    ELSE IF is_domain_explicit(L)
    THEN MakeError("AssertionError", DomainNotImplicit, "write_LUT_SonySPI3D")
    ELSE IF L.domain # UnitDomain
    THEN MakeError("AssertionError", DomainNotUnit, "write_LUT_SonySPI3D")
    ELSE NoError

\* Lines 141-148: the assertion that fails on L, NoError when none does.
WriteRejection(L) ==
    IF is_domain_explicit(L)
    THEN MakeError("AssertionError", DomainNotImplicit, "write_LUT_SonySPI3D")
    ELSE IF L.kind # "LUT3D"
    THEN MakeError("AssertionError", NotLUT3D, "write_LUT_SonySPI3D")
    ELSE IF L.domain # UnitDomain
    THEN MakeError("AssertionError", DomainNotUnit, "write_LUT_SonySPI3D")
    ELSE NoError

\* Lines 135-158: narrowing, the assertions, then open(path, 'w').
WriteEnter(frame, L, d) ==
    LET L1 == Narrowed(L)
        e == WriteRejection(L1)
    IN  /\ pos' = 0
        /\ size' = 0
        /\ indexes' = <<>>
        /\ table' = <<>>
        /\ comments' = <<>>
        /\ pending' = NoError
        /\ LUT' = L1
        /\ decimals' = d
        /\ IF e = NoError
           THEN /\ exists' = TRUE
                /\ file' = <<>>
                /\ pristine' = TRUE
                /\ handles' = handles + 1
                /\ opens' = 1
                /\ pc' = "w_body"
                /\ ret' = NoRet
                /\ written' = [valid |-> TRUE, complete |-> FALSE, LUT |-> L1,
                               decimals |-> d]
           ELSE /\ UNCHANGED <<exists, file, pristine, handles, written>>
                /\ opens' = 0
                /\ pc' = ReturnTo(frame)
                /\ ret' = Raised(e)

\* Lines 159-175: the header, the data rows, the comments.  A negative
\* `decimals` makes the format of the first data row raise ValueError.
WriteBody ==
    /\ pc = "w_body"
    /\ IF decimals < 0
       THEN /\ file' = HeaderLines(LUT.size)
            /\ pending' = MakeError("ValueError", "format", "write_LUT_SonySPI3D")
       ELSE /\ file' = WrittenLines(LUT, decimals)
            /\ pending' = NoError
    /\ written' = [written EXCEPT !.complete = (decimals >= 0)]
    /\ pc' = "w_exit"
    /\ UNCHANGED <<exists, pristine, handles, opens, pos, size, indexes, table, comments,
                   LUT, decimals, disp, log, ret>>

\* Handles left open when the `with` block of line 158 is left.
WriteRelease(h) == h - 1

\* Lines 158 and 177: the `with` block is left, then True or the exception.
WriteExit ==
    /\ pc = "w_exit"
    /\ handles' = WriteRelease(handles)
    /\ pc' = ReturnTo(disp)
    /\ ret' = IF pending = NoError THEN Returned("write_LUT_SonySPI3D", NoLUT)
              ELSE Raised(pending)
    /\ UNCHANGED <<exists, file, pristine, opens, pos, size, indexes, table, comments,
                   pending, LUT, decimals, disp, log, written>>

---------------------------------------------------------------------------
(* Direct calls of the codec *)

CallRead ==
    /\ pc = "idle"
    /\ disp' = NoDisp
    /\ log' = <<>>
    /\ ReadEnter(NoDisp)

CallWrite(luts, decs) ==
    /\ pc = "idle"
    /\ disp' = NoDisp
    /\ log' = <<>>
    /\ \E L \in luts, d \in decs : WriteEnter(NoDisp, L, d)

---------------------------------------------------------------------------
(* Another program edits the written file: one change of one line *)

NonUniformLine == TokenLine(<<Lit(2, 0), Lit(2, 0), Lit(3, 0)>>)

StrayRow == TokenLine(<<Lit(9, 0), Lit(9, 0), Lit(9, 0), Lit(0, 0), Lit(0, 0), Lit(0, 0)>>)

BadRow == TokenLine(<<Lit(0, 0), Lit(0, 0), Word("x"), Lit(0, 0), Lit(0, 0), Lit(0, 0)>>)

ShortRow == TokenLine(<<Lit(0, 0), Lit(0, 0), Lit(0, 0), Lit(0, 0)>>)

ForeignLines == {NonUniformLine, StrayRow, BadRow, ShortRow}

Without(f, i) == SubSeq(f, 1, i - 1) \o SubSeq(f, i + 1, Len(f))

Swapped(f, i) == [f EXCEPT ![i] = f[i + 1], ![i + 1] = f[i]]

Doubled(f, i) == SubSeq(f, 1, i) \o SubSeq(f, i, Len(f))

Edited(f) ==
    /\ pc = "idle"
    /\ exists
    /\ pristine
    /\ file' = f
    /\ pristine' = FALSE
    /\ written' = NoWritten
    /\ ret' = NoRet
    /\ disp' = NoDisp
    /\ log' = <<>>
    /\ LUT' = NoLUT
    /\ decimals' = 0
    /\ UNCHANGED <<exists, handles, opens, pc, pos, size, indexes, table, comments, pending>>

DeleteLine == \E i \in 1..Len(file) : Edited(Without(file, i))

SwapLines == \E i \in 1..(Len(file) - 1) : Edited(Swapped(file, i))

DuplicateLine == \E i \in 1..Len(file) : Edited(Doubled(file, i))

ReplaceLine == \E i \in 1..Len(file), l \in ForeignLines : Edited([file EXCEPT ![i] = l])

---------------------------------------------------------------------------

Next ==
    \/ CallRead
    \/ ReadLine
    \/ ReadClose
    \/ ReadAbort
    \/ ReadCheck
    \/ CallWrite(Luts, Decimals)
    \/ WriteBody
    \/ WriteExit
    \/ DeleteLine
    \/ SwapLines
    \/ DuplicateLine
    \/ ReplaceLine

Spec == Init /\ [][Next]_vars

\* The codec writing and reading back a large table, the file left alone.
LargeNext ==
    \/ CallRead
    \/ ReadLine
    \/ ReadClose
    \/ ReadCheck
    \/ CallWrite(LargeLuts, DispatchDecimals)
    \/ WriteBody
    \/ WriteExit

LargeSpec == Init /\ [][LargeNext]_vars

---------------------------------------------------------------------------
(* Dispatch layer: the registries *)

EXTENSION_TO_LUT_FORMAT_MAPPING ==
    (".cube" :> "Iridas Cube") @@ (".spi1d" :> "Sony SPI1D") @@
    (".spi3d" :> "Sony SPI3D") @@ (".spimtx" :> "Sony SPImtx") @@
    (".csp" :> "Cinespace") @@ (".ccc" :> "ASC CDL") @@ (".cdl" :> "ASC CDL") @@
    (".cc" :> "ASC CDL") @@ (".edl" :> "EDL") @@ (".ale" :> "ALE")

LUT_READ_METHODS ==
    ("Cinespace" :> "read_LUT_Cinespace") @@
    ("Iridas Cube" :> "read_LUT_IridasCube") @@
    ("Resolve Cube" :> "read_LUT_ResolveCube") @@
    ("Sony SPI1D" :> "read_LUT_SonySPI1D") @@
    ("Sony SPI3D" :> "read_LUT_SonySPI3D") @@
    ("Sony SPImtx" :> "read_LUT_SonySPImtx") @@
    ("ASC CDL" :> "read_LUT_cdl_xml") @@
    ("EDL" :> "read_LUT_cdl_edl") @@
    ("ALE" :> "read_LUT_cdl_ale")

\* A write registry without the two-stage Cube writer.
SingleStageWriters ==
    ("Iridas Cube" :> "write_LUT_IridasCube") @@
    ("Sony SPI1D" :> "write_LUT_SonySPI1D") @@
    ("Sony SPI3D" :> "write_LUT_SonySPI3D") @@
    ("Sony SPImtx" :> "write_LUT_SonySPImtx") @@
    ("Cinespace" :> "write_LUT_Cinespace")

LUT_WRITE_METHODS ==
    ("Iridas Cube" :> "write_LUT_IridasCube") @@
    ("Resolve Cube" :> "write_LUT_ResolveCube") @@
    ("Sony SPI1D" :> "write_LUT_SonySPI1D") @@
    ("Sony SPI3D" :> "write_LUT_SonySPI3D") @@
    ("Sony SPImtx" :> "write_LUT_SonySPImtx") @@
    ("Cinespace" :> "write_LUT_Cinespace")

\* str.lower() on the keys the model uses
LowerCase ==
    (".CUBE" :> ".cube") @@ (".Cube" :> ".cube") @@
    ("Cinespace" :> "cinespace") @@ ("Iridas Cube" :> "iridas cube") @@
    ("Resolve Cube" :> "resolve cube") @@ ("Sony SPI1D" :> "sony spi1d") @@
    ("Sony SPI3D" :> "sony spi3d") @@ ("Sony SPImtx" :> "sony spimtx") @@
    ("ASC CDL" :> "asc cdl") @@ ("EDL" :> "edl") @@ ("ALE" :> "ale")

Lower(s) == IF s \in DOMAIN LowerCase THEN LowerCase[s] ELSE s

\* CaseInsensitiveMapping: `key in M` and `M[key]`
Has(M, key) == \E k \in DOMAIN M : Lower(k) = Lower(key)

Get(M, key) == M[CHOOSE k \in DOMAIN M : Lower(k) = Lower(key)]

\* os.path.splitext(path)[-1]: a path of the model is named by its extension
Extension(path) == path

KeyError(who) == MakeError("KeyError", "key", who)

\* The path whose content is modelled: the callers use the .spi3d codec on
\* this path and on no other.
Spi3dPath == ".spi3d"

\* The codecs whose source is modelled.
Modelled(fn) == fn \in {"read_LUT_SonySPI3D", "write_LUT_SonySPI3D"}

Invocation(fn, path, L) == [codec |-> fn, path |-> path, seq |-> L.kind = "LUTSequence"]

---------------------------------------------------------------------------
(* A codec whose source is not modelled: it opens its file, parses or       *)
(* serializes it, releases it, and returns or raises.                       *)

OtherEnter(frame) ==
    /\ handles' = handles + 1
    /\ opens' = 1
    /\ pc' = "o_body"
    /\ ret' = NoRet
    /\ pos' = 0
    /\ size' = 0
    /\ indexes' = <<>>
    /\ table' = <<>>
    /\ comments' = <<>>
    /\ pending' = NoError
    /\ LUT' = NoLUT
    /\ decimals' = 0
    /\ UNCHANGED <<exists, file, pristine, written>>

Outcomes == {"ok", "ValueError", "AssertionError"}

OtherExit ==
    /\ pc = "o_body"
    /\ handles' = handles - 1
    /\ pc' = ReturnTo(disp)
    /\ \E o \in Outcomes :
         ret' = IF o = "ok" THEN Returned(log[Len(log)].codec, OpaqueLUT)
                ELSE Raised(MakeError(o, "", log[Len(log)].codec))
    /\ UNCHANGED <<exists, file, pristine, opens, pos, size, indexes, table, comments,
                   pending, LUT, decimals, disp, log, written>>

---------------------------------------------------------------------------
(* read_LUT *)

\* A caller's `method`: None, or a format name.
None == "None"

\* Lines 168-169: the method the call resolves to, "" when the extension
\* mapping raises KeyError.
ReadMethod(path, method) ==
    IF method # None THEN method
    ELSE IF Has(EXTENSION_TO_LUT_FORMAT_MAPPING, Extension(path))
    THEN Get(EXTENSION_TO_LUT_FORMAT_MAPPING, Extension(path))
    ELSE ""

Fails(frame, e) ==
    /\ pc' = "idle"
    /\ ret' = Raised(e)
    /\ disp' = frame
    /\ log' = <<>>
    /\ pos' = 0
    /\ size' = 0
    /\ indexes' = <<>>
    /\ table' = <<>>
    /\ comments' = <<>>
    /\ pending' = NoError
    /\ LUT' = NoLUT
    /\ decimals' = 0
    /\ opens' = 0
    /\ UNCHANGED <<exists, file, pristine, handles, written>>

\* Lines 168-174: the method, the codec, its invocation.
read_LUT(path, method) ==
    LET m == ReadMethod(path, method)
        frame == [op |-> "read", given |-> method, method |-> m, path |-> path,
                  attempt |-> 1]
    IN  /\ pc = "idle"
        /\ IF m = "" \/ ~Has(LUT_READ_METHODS, m)
           THEN Fails(frame, KeyError("read_LUT"))
           ELSE LET fn == Get(LUT_READ_METHODS, m)
                IN  /\ disp' = frame
                    /\ log' = <<Invocation(fn, path, NoLUT)>>
                    /\ IF Modelled(fn) THEN ReadEnter(frame) ELSE OtherEnter(frame)

\* A dispatcher that retries whatever the method.
RetriesAlways(frame) == TRUE

\* Line 178: the condition under which a ValueError is retried.
RetriesAsResolve(frame) == frame.method = "Iridas Cube"

\* Lines 175-182: the codec raised ValueError under the `try`.
ReadLUTCatch ==
    /\ pc = "d_ret"
    /\ disp.op = "read"
    /\ disp.attempt = 1
    /\ ret.status = "error"
    /\ ret.error.etype = "ValueError"
    /\ IF RetriesAsResolve(disp)
       THEN LET fn == Get(LUT_READ_METHODS, "Resolve Cube")
                frame == [disp EXCEPT !.attempt = 2]
            IN  /\ disp' = frame
                /\ log' = Append(log, Invocation(fn, disp.path, NoLUT))
                /\ IF Modelled(fn) THEN ReadEnter(frame) ELSE OtherEnter(frame)
       ELSE /\ pc' = "idle"
            /\ UNCHANGED <<exists, file, pristine, handles, opens, pos, size, indexes,
                           table, comments, pending, LUT, decimals, disp, log, ret, written>>

\* Lines 174 and 180: the codec's value, or an exception that no handler
\* catches, goes to the caller of read_LUT.
ReadLUTReturn ==
    /\ pc = "d_ret"
    /\ disp.op = "read"
    /\ ~(disp.attempt = 1 /\ ret.status = "error" /\ ret.error.etype = "ValueError")
    /\ pc' = "idle"
    /\ UNCHANGED <<exists, file, pristine, handles, opens, pos, size, indexes, table,
                   comments, pending, LUT, decimals, disp, log, ret, written>>

---------------------------------------------------------------------------
(* write_LUT *)

\* A dispatcher that upgrades an explicit method too.
UpgradedMethod(L, path, method) ==
    LET m == IF method # None THEN method
             ELSE IF ~Has(EXTENSION_TO_LUT_FORMAT_MAPPING, Extension(path)) THEN ""
             ELSE Get(EXTENSION_TO_LUT_FORMAT_MAPPING, Extension(path))
    IN  IF m = "Iridas Cube" /\ L.kind = "LUTSequence" THEN "Resolve Cube" ELSE m

\* Lines 268-271: the method the call resolves to, "" when the extension
\* mapping raises KeyError.
WriteMethod(L, path, method) ==
    IF method # None THEN method
    ELSE IF ~Has(EXTENSION_TO_LUT_FORMAT_MAPPING, Extension(path)) THEN ""
    ELSE LET m == Get(EXTENSION_TO_LUT_FORMAT_MAPPING, Extension(path))
         IN  IF m = "Iridas Cube" /\ L.kind = "LUTSequence" THEN "Resolve Cube" ELSE m

\* Lines 268-275: the method, the codec, its invocation.
write_LUT(L, path, d, method) ==
    LET m == WriteMethod(L, path, method)
        frame == [op |-> "write", given |-> method, method |-> m, path |-> path,
                  attempt |-> 1]
    IN  /\ pc = "idle"
        /\ IF m = "" \/ ~Has(LUT_WRITE_METHODS, m)
           THEN Fails(frame, KeyError("write_LUT"))
           ELSE LET fn == Get(LUT_WRITE_METHODS, m)
                IN  /\ disp' = frame
                    /\ log' = <<Invocation(fn, path, L)>>
                    /\ IF Modelled(fn) THEN WriteEnter(frame, L, d)
                       ELSE OtherEnter(frame)

\* Line 275: the codec's result goes to the caller of write_LUT.
WriteLUTReturn ==
    /\ pc = "d_ret"
    /\ disp.op = "write"
    /\ pc' = "idle"
    /\ UNCHANGED <<exists, file, pristine, handles, opens, pos, size, indexes, table,
                   comments, pending, LUT, decimals, disp, log, ret, written>>

---------------------------------------------------------------------------
(* The callers of the dispatch layer *)

Methods == {None, "Iridas Cube", "iridas cube", "Resolve Cube", "ASC CDL", "EDL", "ALE",
            "Bogus"}

Paths == {".cube", ".CUBE", Spi3dPath, ".edl", ".xyz"}

\* The (path, method) pairs of the calls: every path with the method left
\* out, every method on a .cube path, and the .spi3d path with its own method.
Calls ==
    {<<p, None>> : p \in Paths} \cup {<<".cube", m>> : m \in Methods}
        \cup {<<Spi3dPath, "Sony SPI3D">>}

CallReadLUT == \E c \in Calls : read_LUT(c[1], c[2])

CallWriteLUT == \E c \in Calls, L \in DispatchLuts, d \in DispatchDecimals :
                    write_LUT(L, c[1], d, c[2])

DispatchNext ==
    \/ CallRead
    \/ ReadLine
    \/ ReadClose
    \/ ReadAbort
    \/ ReadCheck
    \/ CallWrite(SmallLuts, SmallDecimals)
    \/ WriteBody
    \/ WriteExit
    \/ ReplaceLine
    \/ OtherExit
    \/ CallReadLUT
    \/ ReadLUTCatch
    \/ ReadLUTReturn
    \/ CallWriteLUT
    \/ WriteLUTReturn

DispatchSpec == Init /\ [][DispatchNext]_vars

---------------------------------------------------------------------------
(* Properties of the .spi3d codec *)

\* A call of read_LUT_SonySPI3D has returned or raised, and `file` is what it read.
ReadOver == ret.fn = "read_LUT_SonySPI3D" /\ ret.status # "none" /\ exists

Abs(x) == IF x < 0 THEN -x ELSE x

\* |a - b| <= 1 / 10^d
Within(a, b, d) == Abs(a.num * b.den - b.num * a.den) * Pow10(d) <= a.den * b.den

SamplesWithin(t, u, d) ==
    /\ Len(t) = Len(u)
    /\ \A r \in 1..Len(t) : \A a \in 1..3 : Within(t[r][a], u[r][a], d)

Stripped(cs) == [i \in 1..Len(cs) |-> Strip(cs[i])]

\* The read that follows a write hands back the table that was written.
ReadsBack(cs) ==
    /\ ret.status = "ok"
    /\ ret.value.kind = "LUT3D"
    /\ ret.value.size = written.LUT.size
    /\ SamplesWithin(written.LUT.table, ret.value.table, written.decimals)
    /\ ret.value.comments = cs

\* C1 as stated: whatever LUT3D the writer accepted and wrote, with whatever
\* comments, reading the file it wrote succeeds and gives back the same
\* size, every sample within 10^-decimals, and the very same comments.
C1_RoundTripVerbatim ==
    (ReadOver /\ written.complete) => ReadsBack(written.LUT.comments)

\* C1 amended: for decimals >= 0 the read succeeds with the same size, every
\* sample within 10^-decimals, and the comments in the same order, each
\* stripped of its leading and trailing white space.
\* For decimals < 0 the write raises ValueError at the first data row and
\* leaves a file of the three header lines.
C1_RoundTripStripped ==
    /\ (ReadOver /\ written.valid /\ written.decimals >= 0)
          => ReadsBack(Stripped(written.LUT.comments))
    /\ (ret.fn = "write_LUT_SonySPI3D" /\ ret.status # "none"
            /\ LUT = written.LUT /\ written.decimals < 0)
          => /\ ret.error.etype = "ValueError"
             /\ pristine => file = HeaderLines(written.LUT.size)

C1_Witness ==
    /\ ReadOver
    /\ written.valid
    /\ written.decimals >= 0
    /\ written.LUT.size >= 2
    /\ Len(written.LUT.comments) = 2
    /\ ret.status = "ok"

\* The lines of the file that are not comments, and those with k tokens.
IsRow(l, k) == ~l.hash /\ Len(l.toks) = k

SixTokenLines(f) == SelectSeq(f, LAMBDA l : IsRow(l, 6))

ThreeTokenLines(f) == SelectSeq(f, LAMBDA l : IsRow(l, 3))

\* The size in force at the end of the file: that of the last three-token
\* line, 2 when there is none.
DeclaredSize(f) ==
    LET ls == ThreeTokenLines(f)
    IN  IF ls = <<>> THEN 2 ELSE ls[Len(ls)].toks[1].q

\* All n^3 integer triples over 0..n-1, row-major, the last index fastest.
RowMajor(n) ==
    [r \in 1..Cube(n) |-> << (r - 1) \div (n * n), ((r - 1) \div n) % n, (r - 1) % n >>]

IsInteger(tok, i) == IsNumeric(tok) /\ tok.q = i * Pow10(tok.d)

\* The index columns of the data rows of f, in file order, are the lattice of n.
IndexColumnsAre(f, n) ==
    LET rows == SixTokenLines(f)
    IN  /\ n >= 1
        /\ Len(rows) = Cube(n)
        /\ \A r \in 1..Len(rows) : \A a \in 1..3 :
               IsInteger(rows[r].toks[a], RowMajor(n)[r][a])

\* C4: read_LUT_SonySPI3D succeeds only if the index triples of the data
\* rows, in file order, are exactly the row-major lattice of the declared
\* size; a permuted, missing, duplicated, extra or stray row makes it fail.
\* True of the sizes of Spec; under LargeSpec the read of a file of size 8
\* whose rows repeat index 4 in place of index 5 succeeds.
C4_IndexLattice ==
    (ReadOver /\ ret.status = "ok") => IndexColumnsAre(file, DeclaredSize(file))

IsNonUniform(l) == IsRow(l, 3) /\ ~(l.toks[1] = l.toks[2] /\ l.toks[2] = l.toks[3])

HasNonUniform(f) == \E i \in 1..Len(f) : IsNonUniform(f[i])

FirstNonUniform(f) == CHOOSE i \in 1..Len(f) :
                          IsNonUniform(f[i]) /\ \A j \in 1..(i - 1) : ~IsNonUniform(f[j])

\* C5 as stated: a file with a non-uniform size line fails with the
\* non-uniform assertion before any data row has been parsed.
C5_RejectedBeforeAnyRow ==
    (ReadOver /\ HasNonUniform(file))
        => (ret.error.emsg = NonUniformShape /\ indexes = <<>> /\ table = <<>>)

\* C5 amended: a file with a non-uniform three-token line is never read
\* successfully; the non-uniform assertion is raised at that line, when the
\* data rows before it in the file have been parsed and none after it.
C5_RejectedAtSizeLine ==
    (ReadOver /\ HasNonUniform(file))
        => /\ ret.status = "error"
           /\ pos <= FirstNonUniform(file)
           /\ (ret.error.emsg = NonUniformShape) = (pos = FirstNonUniform(file))
           /\ ret.error.emsg = NonUniformShape
                  => /\ ret.error.etype = "AssertionError"
                     /\ Len(indexes) = Len(SixTokenLines(SubSeq(file, 1, pos - 1)))
                     /\ Len(table) = Len(indexes)

C5_Witness ==
    /\ ReadOver
    /\ HasNonUniform(file)
    /\ ret.error.emsg = NonUniformShape
    /\ indexes = <<>>
    /\ Len(SixTokenLines(file)) >= 1

\* The grammar: `SPILUT 1.0`, `3 3`, `N N N`, then rows of six numbers,
\* comments anywhere.
Grammatical(f) ==
    LET ls == SelectSeq(f, LAMBDA l : ~l.hash)
    IN  /\ Len(ls) >= 3
        /\ ls[1].toks = <<Word("SPILUT"), Lit(10, 1)>>
        /\ ls[2].toks = <<Lit(3, 0), Lit(3, 0)>>
        /\ Len(ls[3].toks) = 3
        /\ IsIntLiteral(ls[3].toks[1])
        /\ ~IsNonUniform(ls[3])
        /\ \A i \in 4..Len(ls) : Len(ls[i].toks) = 6 /\ AllNumeric(ls[i].toks)

\* C7 as stated: no file that violates the grammar is read successfully.
C7_GrammarEnforced ==
    (ReadOver /\ ret.status = "ok") => Grammatical(file)

\* The index columns of the data rows of f, in file order, are the indexes
\* that the reader derives from the linear table of n.
IndexColumnsMatch(f, n) ==
    LET rows == SixTokenLines(f)
        idx == LatticeIndexes(n)
    IN  /\ n >= 1
        /\ Len(rows) = Cube(n)
        /\ \A r \in 1..Len(rows) : \A a \in 1..3 :
               IsInteger(rows[r].toks[a], idx[r][a])

\* What read_LUT_SonySPI3D does check: the three-token and the six-token
\* lines, and the index columns against the indexes derived for the size in
\* force.
Accepted(f) ==
    /\ \A i \in 1..Len(f) :
         /\ IsRow(f[i], 3) => (~IsNonUniform(f[i]) /\ IsIntLiteral(f[i].toks[1]))
         /\ IsRow(f[i], 6) => AllNumeric(f[i].toks)
    /\ IndexColumnsMatch(f, DeclaredSize(f))

\* C7 amended: the read succeeds exactly when every three-token line is a
\* uniform integer triple, every six-token line is numeric and the index
\* columns equal the indexes the reader derives from the linear table of the
\* size in force; the signature, the stage
\* marker and the size line are not required, and a line with another
\* number of tokens is skipped.  A successful read hands back the samples
\* of all six-token lines and all comments, in file order.
C7_WhatIsEnforced ==
    ReadOver =>
        /\ (ret.status = "ok") = Accepted(file)
        /\ ret.status = "ok" =>
              /\ Len(ret.value.table) = Len(SixTokenLines(file))
              /\ Len(ret.value.comments) = Len(SelectSeq(file, LAMBDA l : l.hash))

C7_Witness ==
    /\ ReadOver
    /\ ret.status = "ok"
    /\ ~Grammatical(file)

\* C9: a file written by write_LUT_SonySPI3D for a table of size N is
\* `SPILUT 1.0`, `3 3`, `N N N`, then N^3 rows whose index columns are the
\* row-major lattice of N and whose r-th row carries the r-th sample, then
\* the comments in the order of LUT.comments.  True of the sizes of Spec;
\* under LargeSpec the rows of lattice coordinate 5 are written with index 4.
C9_WriterLayout ==
    (written.complete /\ pristine) =>
        LET n == written.LUT.size
            k == Len(written.LUT.comments)
        IN  /\ Len(file) = 3 + Cube(n) + k
            /\ file[1] = TokenLine(<<Word("SPILUT"), Lit(10, 1)>>)
            /\ file[2] = TokenLine(<<Lit(3, 0), Lit(3, 0)>>)
            /\ file[3] = TokenLine(<<Lit(n, 0), Lit(n, 0), Lit(n, 0)>>)
            /\ \A r \in 1..Cube(n) :
                  /\ IsRow(file[3 + r], 6)
                  /\ \A a \in 1..3 :
                        /\ file[3 + r].toks[a] = Lit(RowMajor(n)[r][a], 0)
                        /\ file[3 + r].toks[3 + a].d = written.decimals
                        /\ Within(written.LUT.table[r][a],
                                  ValueOf(file[3 + r].toks[3 + a]), written.decimals)
            /\ \A i \in 1..k :
                  /\ file[3 + Cube(n) + i].hash
                  /\ Strip(file[3 + Cube(n) + i].text) = Strip(written.LUT.comments[i])

---------------------------------------------------------------------------
(* Properties of the dispatch layer *)

\* A call of read_LUT / write_LUT has handed its outcome to its caller.
DispatchOver(op) == pc = "idle" /\ disp.op = op /\ ret.status # "none"

FirstRaisedValueError == disp.attempt = 2

\* C2 as stated: when the Iridas Cube codec failed and the retry with the
\* Resolve Cube codec failed too, the caller gets the error of the Iridas
\* Cube codec.
C2_OriginalErrorSurfaces ==
    (DispatchOver("read") /\ FirstRaisedValueError /\ ret.status = "error")
        => ret.error.by = "read_LUT_IridasCube"

\* C2 amended: a ValueError of the codec is retried exactly when the method
\* is the string "Iridas Cube"; the retry invokes the Resolve Cube codec
\* once, on the same path, and its value or its error, not the error of
\* the Iridas Cube codec, is what the caller gets.  Any other outcome
\* of the first codec goes to the caller as it is, after one invocation.
C2_RetryOutcome ==
    DispatchOver("read") =>
        /\ FirstRaisedValueError =>
              /\ disp.method = "Iridas Cube"
              /\ Len(log) = 2
              /\ log[1].codec = "read_LUT_IridasCube"
              /\ log[2].codec = "read_LUT_ResolveCube"
              /\ log[2].path = log[1].path
              /\ ret.fn = "read_LUT_ResolveCube"
        /\ ~FirstRaisedValueError =>
              /\ Len(log) <= 1
              /\ ret.error.etype = "ValueError" => disp.method # "Iridas Cube"
              /\ log # <<>> => ret.fn = log[1].codec
        /\ log = <<>> => ret.error = KeyError("read_LUT")

C2_Witness ==
    /\ DispatchOver("read")
    /\ FirstRaisedValueError
    /\ disp.given = None
    /\ ret.status = "error"
    /\ ret.error.by = "read_LUT_ResolveCube"

\* C3 as stated: a LUTSequence is never delegated to the Iridas Cube writer.
C3_SequenceNeverToIridas ==
    disp.op = "write" =>
        \A i \in 1..Len(log) : ~(log[i].codec = "write_LUT_IridasCube" /\ log[i].seq)

IsCubePath(path) == Lower(Extension(path)) = ".cube"

\* C3 amended: the upgrade to "Resolve Cube" happens only when the method
\* is left out and the extension resolves to "Iridas Cube" for a
\* LUTSequence; a method given by the caller is used as given, so a
\* LUTSequence written with method "Iridas Cube" reaches the Iridas Cube
\* writer; anything else goes to the codec of the resolved method.
C3_UpgradeOnlyWhenOmitted ==
    (disp.op = "write" /\ log # <<>>) =>
        /\ Len(log) = 1
        /\ log[1].path = disp.path
        /\ (disp.given = None /\ log[1].seq) => log[1].codec # "write_LUT_IridasCube"
        /\ (disp.given = None /\ log[1].seq /\ IsCubePath(disp.path))
              => log[1].codec = "write_LUT_ResolveCube"
        /\ (disp.given = None /\ ~log[1].seq)
              => log[1].codec = Get(LUT_WRITE_METHODS,
                                    Get(EXTENSION_TO_LUT_FORMAT_MAPPING, disp.path))
        /\ disp.given # None => log[1].codec = Get(LUT_WRITE_METHODS, disp.given)

C3_Witness ==
    /\ DispatchOver("write")
    /\ disp.given = None
    /\ IsCubePath(disp.path)
    /\ log # <<>>
    /\ log[1].seq
    /\ log[1].codec = "write_LUT_ResolveCube"

C3_Explicit ==
    /\ DispatchOver("write")
    /\ disp.given = "Iridas Cube"
    /\ log # <<>>
    /\ log[1].seq
    /\ log[1].codec = "write_LUT_IridasCube"

\* A call of write_LUT_SonySPI3D has returned or raised; LUT is its
\* argument, narrowed.
WriteOver == ret.fn = "write_LUT_SonySPI3D" /\ ret.status # "none"

IsTypeError == ret.error.emsg = NotLUT3D

IsInvariantError == ret.error.emsg \in {DomainNotImplicit, DomainNotUnit}

\* C6 as stated: whatever is not a LUT3D fails with the type error, a
\* LUT3D with an explicit or a non-unit domain with an invariant error, and
\* only a LUT3D with the implicit unit domain is written.
C6_TypeErrorForNonLUT3D ==
    WriteOver =>
        /\ LUT.kind # "LUT3D" => IsTypeError
        /\ (LUT.kind = "LUT3D" /\ (is_domain_explicit(LUT) \/ LUT.domain # UnitDomain))
              => IsInvariantError
        /\ ret.status = "ok"
              => (LUT.kind = "LUT3D" /\ ~is_domain_explicit(LUT) /\ LUT.domain = UnitDomain)

\* C6 amended: the domain is checked first.  A table with an explicit
\* domain, LUT3D or not, fails with the implicit-domain assertion; a table
\* with an implicit domain that is not a LUT3D fails with the type
\* assertion; a LUT3D with an implicit domain other than the unit one fails
\* with the unit-domain assertion; only a LUT3D with the implicit unit
\* domain is written.  All three are AssertionError.
C6_DomainCheckedFirst ==
    WriteOver =>
        /\ is_domain_explicit(LUT) => ret.error.emsg = DomainNotImplicit
        /\ (~is_domain_explicit(LUT) /\ LUT.kind # "LUT3D") => IsTypeError
        /\ (~is_domain_explicit(LUT) /\ LUT.kind = "LUT3D" /\ LUT.domain # UnitDomain)
              => ret.error.emsg = DomainNotUnit
        /\ (IsTypeError \/ IsInvariantError) => ret.error.etype = "AssertionError"
        /\ ret.status = "ok"
              => (LUT.kind = "LUT3D" /\ ~is_domain_explicit(LUT) /\ LUT.domain = UnitDomain)

C6_Witness ==
    /\ WriteOver
    /\ LUT.kind # "LUT3D"
    /\ is_domain_explicit(LUT)
    /\ ret.error.emsg = DomainNotImplicit

ReadOnly(m) == Has(LUT_READ_METHODS, m) /\ ~Has(LUT_WRITE_METHODS, m)

WriteRefused == log = <<>> /\ ret.error = KeyError("write_LUT")

\* C8 as stated: write_LUT with "Resolve Cube", "EDL" or "ALE" fails
\* without invoking a codec, and every format of the extension mapping can
\* be read.
C8_ResolveIsReadOnly ==
    /\ DispatchOver("write") /\ disp.method \in {"Resolve Cube", "EDL", "ALE"}
          => WriteRefused
    /\ \A e \in DOMAIN EXTENSION_TO_LUT_FORMAT_MAPPING :
          Has(LUT_READ_METHODS, EXTENSION_TO_LUT_FORMAT_MAPPING[e])

\* C8 amended: the read-only formats are "ASC CDL", "EDL" and "ALE";
\* write_LUT with one of them fails with KeyError without invoking a codec.
\* "Resolve Cube" is in both registries and write_LUT delegates to its
\* writer.  Every format of the extension mapping can be read.
C8_ReadOnlyFormats ==
    /\ {m \in DOMAIN LUT_READ_METHODS : ReadOnly(m)} = {"ASC CDL", "EDL", "ALE"}
    /\ DOMAIN LUT_WRITE_METHODS \subseteq DOMAIN LUT_READ_METHODS
    /\ DispatchOver("write") =>
          /\ disp.method \in {"ASC CDL", "EDL", "ALE"} => WriteRefused
          /\ disp.method = "Resolve Cube"
                => (log # <<>> /\ log[1].codec = "write_LUT_ResolveCube")
    /\ \A e \in DOMAIN EXTENSION_TO_LUT_FORMAT_MAPPING :
          Has(LUT_READ_METHODS, EXTENSION_TO_LUT_FORMAT_MAPPING[e])

C8_Witness ==
    /\ DispatchOver("write")
    /\ disp.given = None
    /\ disp.method = "EDL"
    /\ WriteRefused

\* C10: no call holds more than one file handle, and none is open once a
\* codec has returned or raised, whatever the exit path; none is open
\* between the calls.
C10_HandlesReleased ==
    /\ handles \in {0, 1}
    /\ opens \in {0, 1}
    /\ handles <= opens
    /\ pc \in {"idle", "d_ret", "r_check"} => handles = 0

\* A data row with a non-numeric token stopped the reader mid-stream.
C10_Witness ==
    /\ pc = "idle"
    /\ ret.fn = "read_LUT_SonySPI3D"
    /\ ret.error.etype = "ValueError"
    /\ pos < Len(file)
    /\ opens = 1
    /\ handles = 0

====
